---- MODULE Spec2Model ----
(***************************************************************************)
(* Inbound message pipeline of the XMTP <-> Bitte agent bridge.            *)
(*                                                                         *)
(* The model follows src/server.ts (the handleStream supervisor, lines     *)
(* 1174-1541): the retry counter and reconnect timers, every invocation of *)
(* handleStream with its position inside the for-await loop, the local     *)
(* message history of each conversation and the outputs produced for the   *)
(* event each loop is working on.  Every `await` of the source is one      *)
(* step of the model, because other callbacks may run at an await.         *)
(* The running invocations of handleStream have no identity of their own:  *)
(* they are kept as a bag of activation records.                           *)
(*                                                                         *)
(* Three specifications share the actions: SpecSupervisor (subscriptions   *)
(* that fail, no message), SpecStable (one subscription that stays up,     *)
(* every kind of message) and Spec (failing subscriptions while messages   *)
(* are handled).  SpecAggregator, SpecNormalizer and SpecDispatcher apply  *)
(* the functions that turn tool calls into batches and send the outputs;   *)
(* SpecAgentCall is one call of the retrying sendToAgent.                  *)
(***************************************************************************)
EXTENDS Integers, Sequences, FiniteSets, Bags, TLC

(***************************************************************************)
(* Program constants and bounds                                            *)
(***************************************************************************)
MAX_RETRIES == 5

\* number of inbound events the network delivers over the process lifetime
MaxEvents == 2
\* tool-call records in one agent response
MaxTools == 1
\* a reply event references one of the first MaxRef messages of its
\* conversation, or a message that is not in the local history (0)
MaxRef == 2

(***************************************************************************)
(* Strings are sequences of one-character strings.                         *)
(***************************************************************************)
LowerChar(c) ==
    CASE c = "A" -> "a" [] c = "B" -> "b" [] c = "C" -> "c" [] c = "D" -> "d"
      [] c = "E" -> "e" [] c = "F" -> "f" [] c = "G" -> "g" [] c = "H" -> "h"
      [] c = "I" -> "i" [] c = "J" -> "j" [] c = "K" -> "k" [] c = "L" -> "l"
      [] c = "M" -> "m" [] c = "N" -> "n" [] c = "O" -> "o" [] c = "P" -> "p"
      [] c = "Q" -> "q" [] c = "R" -> "r" [] c = "S" -> "s" [] c = "T" -> "t"
      [] c = "U" -> "u" [] c = "V" -> "v" [] c = "W" -> "w" [] c = "X" -> "x"
      [] c = "Y" -> "y" [] c = "Z" -> "z"
      [] OTHER -> c

\* String.prototype.toLowerCase
toLowerCase(s) == IF s = <<>> THEN <<>> ELSE [i \in 1..Len(s) |-> LowerChar(s[i])]

\* String.prototype.includes
includes(s, t) ==
    \E i \in 1..(Len(s) - Len(t) + 1) : SubSeq(s, i, i + Len(t) - 1) = t

\* String(x) of a decoded content object
OBJECT_STRING ==
    <<"[","o","b","j","e","c","t"," ","O","b","j","e","c","t","]">>

\* JSON.stringify(x) of a decoded content object without own fields
EMPTY_OBJECT_JSON == <<"{", "}">>

(***************************************************************************)
(* Identities, conversations, content                                      *)
(***************************************************************************)
clientInboxId == "agent"
otherInboxId == "user"

\* createSigner lower-cases the address of the agent's wallet
clientEvmAddress == <<"0","x","a","b">>
\* the human readable mention id of the agent (mixed case)
AGENT_CHAT_ID == <<"A","b",".","e">>
BITTE_TAG == <<"@","b","i","t","t","e">>

\* client.conversations.getConversationById: "gone" is not in the local db
Conversations == {"dm", "grp"}
isGroup(c) == c = "grp"
isDm(c) == c = "dm"

ContentTypes ==
    {"text", "reply", "reaction", "group_updated", "transactionReference",
     "undefined"}

T_empty == <<>>
T_blank == <<" ">>
T_plain == <<"g","m">>
T_noAt == <<"b","i","t","t","e">>
T_bitte == <<"g","m","@","B","I","T","T","E">>
T_addr == <<"@","0","X","A","B"," ","g","m">>
T_chat == <<"@","a","b",".","e">>

Texts == {T_empty, T_blank, T_plain, T_noAt, T_bitte, T_addr, T_chat}

\* a decoded message: content is null (t = "null"), a string (t = "str"),
\* a Reply object with its own content and reference (t = "reply"), or
\* another decoded object (t = "obj"); id is the position of the message in
\* its conversation, ref the id a reply refers to
Msg(id, sender, conv, ctype, t, s, ref) ==
    [id |-> id, sender |-> sender, conv |-> conv, ctype |-> ctype, t |-> t,
     s |-> s, ref |-> ref]

NoMsg == Msg(0, "", "", "", "null", <<>>, 0)

\* the events the network can deliver into conversation c whose local
\* history holds n messages
Events(c, n) ==
    LET refs == 0..(IF n < MaxRef THEN n ELSE MaxRef) IN
    { Msg(n + 1, otherInboxId, c, "text", "str", s, 0) : s \in Texts }
    \cup { Msg(n + 1, otherInboxId, c, "reply", "reply", T_plain, r) :
             r \in refs }
    \cup { Msg(n + 1, otherInboxId, c, "reply", "null", <<>>, 0) }
    \cup { Msg(n + 1, otherInboxId, c, ct, "obj", <<>>, 0) :
             ct \in {"reaction", "group_updated", "transactionReference"} }
    \cup { Msg(n + 1, otherInboxId, c, "undefined", "str", T_bitte, 0) }
    \cup { Msg(n + 1, clientInboxId, c, "text", "str", T_bitte, 0),
           Msg(n + 1, clientInboxId, c, "transactionReference", "obj", <<>>, 0) }
    \cup { Msg(n + 1, clientInboxId, c, "reply", "reply", T_bitte, r) :
             r \in refs \ {0} }

\* a message of a conversation that is not in the local db
GoneMsg == Msg(1, otherInboxId, "gone", "text", "str", T_bitte, 0)

(***************************************************************************)
(* extractMessageContent (helpers): the text handed to the filter          *)
(***************************************************************************)
extractMessageContent(m) ==
    IF m.ctype = "reply"
    THEN IF m.t = "reply" THEN m.s
         ELSE IF m.t = "null" THEN <<>>
         ELSE IF m.t = "str" THEN <<"\"">> \o m.s \o <<"\"">>
         ELSE EMPTY_OBJECT_JSON
    ELSE IF m.t = "null" THEN <<>>
         ELSE IF m.t = "str" THEN m.s
         ELSE OBJECT_STRING

(***************************************************************************)
(* Agent responses                                                         *)
(***************************************************************************)
\* a tool-call record: an eth_sendTransaction sign request, an
\* eth_signTypedData_v4 sign request with a verifying contract, or a record
\* without sign request
ToolKinds == {"sendTransaction", "signTypedData_v4", "noSignRequest"}

ToolSeqs == UNION { [1..n -> ToolKinds] : n \in 0..MaxTools }

Completions == { [content |-> c, toolCalls |-> tc] :
                   c \in {<<>>, <<"o","k">>}, tc \in ToolSeqs }
NoCompletion == [content |-> <<>>, toolCalls |-> <<>>]

VARIABLES
    retries,        \* let retries = MAX_RETRIES
    timers,         \* pending setTimeout callbacks of retry()
    exited,         \* process.exit(1) was called
    loops,          \* bag of running handleStream invocations
    history,        \* local db: sender of every message per conversation
    delivered,      \* events delivered so far
    started,        \* handleStream invocations so far
    scheduled,      \* reconnects scheduled so far
    onFailCalls,    \* onFail invocations so far
    welcomes,       \* welcome messages sent per conversation
    last,           \* the event whose handling ended last, with its outcome
    txToolCalls,    \* swap and generate-evm-tx tool calls of one response
    extraction,     \* "pending", "done", or "threw" if making evmTxCalls threw
    evmTxCalls,     \* const evmTxCalls: WalletSendCallsParams[]
    arrays,         \* the calls arrays the entries of evmTxCalls point to
    groupedRuns,    \* per run of the grouping loop: input and batches sent
    signRequests,   \* evmSignRequest of each tool call of one agent response
    converted,      \* outcome of convertEvmTxToWalletSendCalls per request
    handled,        \* messages handleStream sent for the tool calls
    sendArgs,       \* arguments of a call of sendMessage
    wire,           \* what conversation.send was called with
    agentCall       \* the running call of the retrying sendToAgent

aggregatorVars == <<txToolCalls, extraction, evmTxCalls, arrays, groupedRuns>>
normalizerVars == <<signRequests, converted, handled>>
dispatcherVars == <<sendArgs, wire>>

\* state of the transaction-batch code and of sendMessage
txVars == <<aggregatorVars, normalizerVars, dispatcherVars, agentCall>>

vars == <<retries, timers, exited, loops, history, delivered, started,
          scheduled, onFailCalls, welcomes, last, txVars>>

supervisorVars == <<retries, timers, exited, started, scheduled, onFailCalls>>

\* state of the stream supervisor and the per-event pipeline
pipelineVars == <<supervisorVars, loops, history, delivered, welcomes, last>>

AggregatorIdle ==
    /\ txToolCalls = <<>>
    /\ extraction = "pending"
    /\ evmTxCalls = <<>>
    /\ arrays = <<>>
    /\ groupedRuns = <<>>

NormalizerIdle ==
    /\ signRequests = <<>>
    /\ converted = <<>>
    /\ handled = <<>>

DispatcherIdle ==
    /\ sendArgs = <<>>
    /\ wire = <<>>

\* no agent response is being turned into transaction batches
NoTxWork ==
    AggregatorIdle /\ NormalizerIdle /\ DispatcherIdle /\ agentCall = <<>>

\* positions between receiving an event and returning to the iterator
InPipeline == {"lookup", "history", "welcome", "react", "agent", "tools",
               "reply"}

\* the activation record of one handleStream invocation:
\*   pc          position: "connecting", "next" (awaiting the iterator) or
\*               one of InPipeline
\*   stream      its subscription: "none", "open" or "failed"
\*   msg         the message the loop is working on
\*   completion  the agent response for msg
\*   toolIdx     the tool call whose batch is being sent
\*   outs        the outputs produced for msg so far, in order
Activation(p, st, m, c, i, o) ==
    [pc |-> p, stream |-> st, msg |-> m, completion |-> c, toolIdx |-> i,
     outs |-> o]

\* handleStream() was just called
NewLoop == Activation("connecting", "none", NoMsg, NoCompletion, 0, <<>>)

\* back at the head of the for-await loop
AtNext(r) == Activation("next", r.stream, NoMsg, NoCompletion, 0, <<>>)

Running == BagToSet(loops)
Replace(r, r2) == (loops (-) SetToBag({r})) (+) SetToBag({r2})
Remove(r) == loops (-) SetToBag({r})

\* how the handling of message m ended: "drop" (skipped by a check),
\* "welcome", "done" (all steps ran) or "error" (an exception was caught)
Outcome(m, o, how) == [msg |-> m, outs |-> o, how |-> how]
NoOutcome == Outcome(NoMsg, <<>>, "none")

\* histories the local db can hold when the process starts
InitHistories == {<<>>, <<otherInboxId, clientInboxId>>}

Init ==
    /\ retries = MAX_RETRIES
    /\ timers = 0
    /\ exited = FALSE
    /\ loops = SetToBag({NewLoop})
    /\ history \in [Conversations -> InitHistories]
    /\ delivered = 0
    /\ started = 1
    /\ scheduled = 0
    /\ onFailCalls = 0
    /\ welcomes = [c \in Conversations |-> 0]
    /\ last = NoOutcome
    /\ NoTxWork

(***************************************************************************)
(* Stream Supervisor: retry, onFail, handleStream                          *)
(***************************************************************************)
\* mutation: the guard lets one more reconnect through
retryOffByOne ==
    IF retries >= 0
    THEN /\ retries' = retries - 1
         /\ timers' = timers + 1
         /\ scheduled' = scheduled + 1
         /\ exited' = exited
    ELSE /\ exited' = TRUE
         /\ UNCHANGED <<retries, timers, scheduled>>

retry ==
    IF retries > 0
    THEN /\ retries' = retries - 1
         /\ timers' = timers + 1
         /\ scheduled' = scheduled + 1
         /\ exited' = exited
    ELSE /\ exited' = TRUE
         /\ UNCHANGED <<retries, timers, scheduled>>

onFail ==
    /\ onFailCalls' = onFailCalls + 1
    /\ started' = started
    /\ retry

\* setTimeout(() => handleStream(), RETRY_INTERVAL) fires
TimerFire ==
    /\ ~exited
    /\ timers > 0
    /\ timers' = timers - 1
    /\ started' = started + 1
    /\ loops' = loops (+) SetToBag({NewLoop})
    /\ UNCHANGED <<txVars, retries, exited, scheduled, onFailCalls, history,
                   delivered, welcomes, last>>

\* getIdentifier, syncAll and streamAllMessages resolve
Connect(r) ==
    /\ ~exited
    /\ r.pc = "connecting"
    /\ loops' = Replace(r, [r EXCEPT !.pc = "next", !.stream = "open"])
    /\ UNCHANGED <<txVars, supervisorVars, history, delivered, welcomes,
                   last>>

\* syncAll or streamAllMessages rejects: the outer catch calls onFail
ConnectFail(r) ==
    /\ ~exited
    /\ r.pc = "connecting"
    /\ loops' = Remove(r)
    /\ onFail
    /\ UNCHANGED <<txVars, history, delivered, welcomes, last>>

\* the SDK reports a failure of the subscription through the onFail option
\* while the consuming loop is suspended at an await
SdkOnFail(r) ==
    /\ ~exited
    /\ r.stream = "open"
    /\ loops' = Replace(r, [r EXCEPT !.stream = "failed"])
    /\ onFail
    /\ UNCHANGED <<txVars, history, delivered, welcomes, last>>

\* the iterator rejects: the outer catch calls onFail
IterThrow(r) ==
    /\ ~exited
    /\ r.pc = "next"
    /\ loops' = Remove(r)
    /\ onFail
    /\ UNCHANGED <<txVars, history, delivered, welcomes, last>>

\* the iterator ends: the for-await loop and handleStream return
IterEnd(r) ==
    /\ ~exited
    /\ r.pc = "next"
    /\ loops' = Remove(r)
    /\ UNCHANGED <<txVars, supervisorVars, history, delivered, welcomes,
                   last>>

(***************************************************************************)
(* Eligibility filter: the checks of the for-await body                    *)
(***************************************************************************)
\* mutation: the sender is compared with the wallet address
fromAgentByAddress(m) == m.sender = "0xab"

\* senderInboxId === clientInboxId
fromAgent(m) == m.sender = clientInboxId

\* mutation: membership changes are not skipped
isGroupUpdatedNever(m) == FALSE

\* message.contentType.sameAs(ContentTypeGroupUpdated)
isGroupUpdated(m) == m.ctype = "group_updated"

\* !messageContent || messageContent === ""
contentInvalid(content) == content = <<>>

\* mutation: looks for a message of the event's sender
hasAgentRepliedBySender(messages) ==
    \E i \in 1..Len(messages) : messages[i] = otherInboxId

\* messages.some((msg) => msg.senderInboxId === clientInboxId)
hasAgentReplied(messages) ==
    \E i \in 1..Len(messages) : messages[i] = clientInboxId

\* the reply's reference is a message of the agent in `messages`
isReplyToAgent(m, messages) ==
    /\ m.ctype = "reply"
    /\ m.ref \in 1..Len(messages)
    /\ messages[m.ref] = clientInboxId

clientTags == {<<"@">> \o clientEvmAddress, <<"@">> \o AGENT_CHAT_ID, BITTE_TAG}

\* mutation: the text is not lower-cased
isTaggingClientCaseSensitive(messageContent) ==
    \E tag \in clientTags : includes(messageContent, toLowerCase(tag))

isTaggingClient(messageContent) ==
    \E tag \in clientTags :
        includes(toLowerCase(messageContent), toLowerCase(tag))

isTransactionReference(m) == m.ctype = "transactionReference"

\* the checks made before the first await
skippedOnReceipt(m) ==
    \/ m.ctype = "undefined"
    \/ fromAgent(m)
    \/ m.ctype = "reaction"

\* the checks made once getConversationById resolved
skippedAfterLookup(m) ==
    \/ m.conv \notin Conversations
    \/ contentInvalid(extractMessageContent(m))
    \/ isGroupUpdated(m)
    \/ ~(isDm(m.conv) \/ isGroup(m.conv))

\* position after conversation.messages() resolved with `messages`
afterHistory(m, messages) ==
    IF ~hasAgentReplied(messages) THEN "welcome"
    ELSE IF /\ isGroup(m.conv)
            /\ ~isTaggingClient(extractMessageContent(m))
            /\ ~isReplyToAgent(m, messages)
         THEN "next"
    ELSE IF ~isTransactionReference(m) THEN "react"
    ELSE "agent"

(***************************************************************************)
(* Per-event pipeline                                                      *)
(***************************************************************************)
\* the loop r, which has become r2, is done with its message
Finish(r, r2, how) ==
    /\ loops' = Replace(r, AtNext(r2))
    /\ last' = Outcome(r2.msg, r2.outs, how)

\* what the catch blocks do with an exception of the for-await body:
\* "loop" when it is caught inside the loop, "outer" when it leaves the loop
\* mutation: the body has no try/catch of its own
eventCatchOuter == "outer"

eventCatch == "loop"

\* an exception was thrown while r worked on its message; r2 is r at the
\* point of the throw
Catch(r, r2) ==
    IF eventCatch = "loop"
    THEN /\ Finish(r, r2, "error")
         /\ UNCHANGED supervisorVars
    ELSE /\ loops' = Remove(r)
         /\ last' = Outcome(r2.msg, r2.outs, "error")
         /\ onFail

Stored(h, c, sender) ==
    IF c \in Conversations THEN [h EXCEPT ![c] = Append(@, sender)] ELSE h

\* the iterator yields message m
Deliver(r, m) ==
    /\ ~exited
    /\ r.pc = "next"
    /\ r.stream = "open"
    /\ delivered < MaxEvents
    /\ delivered' = delivered + 1
    /\ history' = Stored(history, m.conv, m.sender)
    /\ IF skippedOnReceipt(m)
       THEN /\ loops' = loops
            /\ last' = Outcome(m, <<>>, "drop")
       ELSE /\ loops' = Replace(r, [r EXCEPT !.pc = "lookup", !.msg = m])
            /\ last' = NoOutcome
    /\ UNCHANGED <<txVars, supervisorVars, welcomes>>

\* getConversationById resolves; content and kind checks
Lookup(r) ==
    /\ ~exited
    /\ r.pc = "lookup"
    /\ IF skippedAfterLookup(r.msg)
       THEN Finish(r, r, "drop")
       ELSE /\ loops' = Replace(r, [r EXCEPT !.pc = "history"])
            /\ last' = last
    /\ UNCHANGED <<txVars, supervisorVars, history, delivered, welcomes>>

\* conversation.messages() resolves; welcome and group filter
History(r) ==
    /\ ~exited
    /\ r.pc = "history"
    /\ LET to == afterHistory(r.msg, history[r.msg.conv]) IN
       IF to = "next"
       THEN Finish(r, r, "drop")
       ELSE /\ loops' = Replace(r, [r EXCEPT !.pc = to])
            /\ last' = last
    /\ UNCHANGED <<txVars, supervisorVars, history, delivered, welcomes>>

\* r with one more output, sent for its message
Sent(r, kind) == [r EXCEPT !.outs = Append(@, kind)]

\* conversation.send(WELCOME_MESSAGE, ContentTypeText) resolves; continue
Welcome(r) ==
    /\ ~exited
    /\ r.pc = "welcome"
    /\ Finish(r, Sent(r, "welcome"), "welcome")
    /\ history' = Stored(history, r.msg.conv, clientInboxId)
    /\ welcomes' = [welcomes EXCEPT ![r.msg.conv] = @ + 1]
    /\ UNCHANGED <<txVars, supervisorVars, delivered>>

\* generateReaction and conversation.send(reaction) resolve
React(r) ==
    /\ ~exited
    /\ r.pc = "react"
    /\ loops' = Replace(r, [Sent(r, "reaction") EXCEPT !.pc = "agent"])
    /\ history' = Stored(history, r.msg.conv, clientInboxId)
    /\ UNCHANGED <<txVars, supervisorVars, delivered, welcomes, last>>

\* tool-call records for which handleStream sends a wallet_sendCalls batch
sendsBatch(kind) == kind \in {"sendTransaction", "signTypedData_v4"}

\* index of the first tool call at or after i that sends a batch
RECURSIVE nextBatch(_, _)
nextBatch(toolCalls, i) ==
    IF i > Len(toolCalls) THEN i
    ELSE IF sendsBatch(toolCalls[i]) THEN i
    ELSE nextBatch(toolCalls, i + 1)

\* completion.content && !transaction reference: the text reply is sent
sendsReply(m, c) == c.content # <<>> /\ ~isTransactionReference(m)

\* the loop r, which has become r2, has handled the tool calls before index
\* i of completion c
AfterTools(r, r2, c, i) ==
    IF nextBatch(c.toolCalls, i) <= Len(c.toolCalls)
    THEN /\ loops' = Replace(r, [r2 EXCEPT !.pc = "tools", !.completion = c,
                                           !.toolIdx = nextBatch(c.toolCalls, i)])
         /\ last' = last
    ELSE IF sendsReply(r.msg, c)
    THEN /\ loops' = Replace(r, [r2 EXCEPT !.pc = "reply", !.completion = c,
                                           !.toolIdx = 0])
         /\ last' = last
    ELSE Finish(r, r2, "done")

\* inboxStateFromInboxIds and sendToAgent resolve with completion c
AgentCall(r, c) ==
    /\ ~exited
    /\ r.pc = "agent"
    /\ AfterTools(r, Sent(r, "agentCall"), c, 1)
    /\ UNCHANGED <<txVars, supervisorVars, history, delivered, welcomes>>

\* sendToAgent throws after the request was made
AgentCallFailed(r) ==
    /\ ~exited
    /\ r.pc = "agent"
    /\ Catch(r, Sent(r, "agentCall"))
    /\ UNCHANGED <<txVars, history, delivered, welcomes>>

\* conversation.send(walletSendCalls, ContentTypeWalletSendCalls) settles;
\* a rejection is caught next to the send
ToolSend(r, ok) ==
    /\ ~exited
    /\ r.pc = "tools"
    /\ AfterTools(r, IF ok THEN Sent(r, "batch") ELSE r, r.completion,
                  r.toolIdx + 1)
    /\ history' = IF ok THEN Stored(history, r.msg.conv, clientInboxId)
                  ELSE history
    /\ UNCHANGED <<txVars, supervisorVars, delivered, welcomes>>

\* conversation.send(reply, ContentTypeReply) resolves
Reply(r) ==
    /\ ~exited
    /\ r.pc = "reply"
    /\ Finish(r, Sent(r, "reply"), "done")
    /\ history' = Stored(history, r.msg.conv, clientInboxId)
    /\ UNCHANGED <<txVars, supervisorVars, delivered, welcomes>>

\* an awaited call of the body rejects before it had an effect, or the
\* code between two awaits throws (at "tools": building the batch)
EventThrow(r) ==
    /\ ~exited
    /\ r.pc \in InPipeline
    /\ Catch(r, r)
    /\ UNCHANGED <<txVars, history, delivered, welcomes>>

(***************************************************************************)
(* Specifications                                                          *)
(***************************************************************************)
\* every message the network can deliver in the current state
Deliverable(h) ==
    UNION { Events(c, Len(h[c])) : c \in Conversations } \cup {GoneMsg}

\* text messages of another member that mention the agent
MentionEvents(h) ==
    { m \in Deliverable(h) : /\ m.sender = otherInboxId
                             /\ m.conv \in Conversations
                             /\ m.ctype = "text"
                             /\ m.s = T_bitte }

\* the supervisor alone: subscriptions that fail before any message arrives
NextSupervisor ==
    \/ TimerFire
    \/ \E r \in Running : Connect(r)
    \/ \E r \in Running : ConnectFail(r)
    \/ \E r \in Running : SdkOnFail(r)
    \/ \E r \in Running : IterThrow(r)
    \/ \E r \in Running : IterEnd(r)

SpecSupervisor == Init /\ [][NextSupervisor]_vars

\* the pipeline while the subscription stays up: every kind of message
NextStable ==
    \/ \E r \in Running : Connect(r)
    \/ \E r \in Running : \E m \in Deliverable(history) : Deliver(r, m)
    \/ \E r \in Running : Lookup(r)
    \/ \E r \in Running : History(r)
    \/ \E r \in Running : Welcome(r)
    \/ \E r \in Running : React(r)
    \/ \E r \in Running : \E c \in Completions : AgentCall(r, c)
    \/ \E r \in Running : AgentCallFailed(r)
    \/ \E r \in Running : \E ok \in BOOLEAN : ToolSend(r, ok)
    \/ \E r \in Running : Reply(r)
    \/ \E r \in Running : EventThrow(r)

SpecStable == Init /\ [][NextStable]_vars

\* supervisor and pipeline together: subscriptions fail while mentions
\* arrive
Next ==
    \/ TimerFire
    \/ \E r \in Running : Connect(r)
    \/ \E r \in Running : ConnectFail(r)
    \/ \E r \in Running : SdkOnFail(r)
    \/ \E r \in Running : IterThrow(r)
    \/ \E r \in Running : IterEnd(r)
    \/ \E r \in Running : \E m \in MentionEvents(history) : Deliver(r, m)
    \/ \E r \in Running : Lookup(r)
    \/ \E r \in Running : History(r)
    \/ \E r \in Running : Welcome(r)
    \/ \E r \in Running : React(r)
    \/ \E r \in Running : \E c \in Completions : AgentCall(r, c)
    \/ \E r \in Running : AgentCallFailed(r)
    \/ \E r \in Running : \E ok \in BOOLEAN : ToolSend(r, ok)
    \/ \E r \in Running : Reply(r)
    \/ \E r \in Running : EventThrow(r)

Spec == Init /\ [][Next]_vars

TypeOK ==
    /\ retries \in 0..MAX_RETRIES
    /\ timers \in 0..MAX_RETRIES
    /\ exited \in BOOLEAN
    /\ IsABag(loops)
    /\ \A r \in Running :
          r.pc \in {"connecting", "next"} \cup InPipeline
    /\ delivered \in 0..MaxEvents
    /\ started \in 1..(MAX_RETRIES + 1)

(***************************************************************************)
(* Batch aggregator: extractEvmTxCall and the groupedTxs loop              *)
(***************************************************************************)
\* fragments in the evmTxCalls list of one agent response
MaxFragments == 2
\* times the grouping loop is applied to one evmTxCalls list
MaxRuns == 2

\* chain id of Base, imported from ./config
BASE_CHAIN_ID == 8453

HEX_DIGITS ==
    <<"0","1","2","3","4","5","6","7","8","9","a","b","c","d","e","f">>

\* Number.prototype.toString(16) of a non-negative integer
RECURSIVE toString16(_)
toString16(n) ==
    IF n < 16 THEN <<HEX_DIGITS[n + 1]>>
    ELSE toString16(n \div 16) \o <<HEX_DIGITS[(n % 16) + 1]>>

\* viem's toHex of a number
toHex(n) == <<"0", "x">> \o toString16(n)

\* Number.parseInt of a string of decimal digits
RECURSIVE parseInt(_)
parseInt(s) ==
    LET d == CHOOSE k \in 0..9 : HEX_DIGITS[k + 1] = s[Len(s)]
    IN  IF Len(s) = 1 THEN d
        ELSE 10 * parseInt(SubSeq(s, 1, Len(s) - 1)) + d

\* String.prototype.startsWith("0x")
startsWith0x(s) == Len(s) >= 2 /\ s[1] = "0" /\ s[2] = "x"

\* address of the member the agent answers, and addresses the agent puts
\* into tool-call params
addressFromInboxId == <<"0","x","c","d">>
otherAddress == <<"0","x","e","f">>
TARGET_1 == <<"0","x","1","1">>
TARGET_2 == <<"0","x","2","2">>

\* elements of args.params; <<>> is a field that is undefined
TxParam(to, from, value) == [to |-> to, from |-> from, value |-> value]

TxParams ==
    { TxParam(TARGET_1, <<>>, <<>>),
      TxParam(TARGET_2, <<>>, <<"0","x","1">>),
      TxParam(TARGET_1, otherAddress, <<>>) }

\* a tool call of the response. For generate-evm-tx, chainId and params are
\* those of its args; for swap, those of result.data.transaction, and a
\* swap without params is also one without such a result. chainId is the
\* integer in decimal digits, or undefined (<<>>); params is an array or
\* missing
TxToolCall(toolName, chainId, hasParams, params) ==
    [toolName |-> toolName, chainId |-> chainId, hasParams |-> hasParams,
     params |-> params]

TxChainIds == {<<>>, <<"1">>, <<"8","4","5","3">>}

TxParamLists ==
    {<<>>} \cup {<<p>> : p \in TxParams}
           \cup {<<p, q>> : p \in TxParams, q \in TxParams}

\* swap tool calls: one whose result has a transaction for a target of its
\* own, one without a result
SwapToolCalls ==
    { TxToolCall("swap", <<>>, TRUE,
                 <<TxParam(<<"0","x","3","3">>, <<>>, <<>>)>>),
      TxToolCall("swap", <<>>, FALSE, <<>>) }

\* the generate-evm-tx tool calls, among them one for chain 0 and one whose
\* value is neither hex nor a decimal amount; then the swap tool calls
TxToolCalls ==
    { TxToolCall("generate-evm-tx", ch, TRUE, ps) :
         ch \in TxChainIds, ps \in TxParamLists }
    \cup { TxToolCall("generate-evm-tx", ch, FALSE, <<>>) : ch \in TxChainIds }
    \cup { TxToolCall("generate-evm-tx", <<"0">>, TRUE,
                      <<TxParam(TARGET_1, <<>>, <<>>)>>),
           TxToolCall("generate-evm-tx", <<"8","4","5","3">>, TRUE,
                      <<TxParam(TARGET_2, <<>>, <<"a","b","c">>)>>) }
    \cup SwapToolCalls

VERSION_1_0_0 == <<"1",".","0",".","0">>

\* value of a call: a hex string is kept, a missing value is
\* toHex(parseEther("0")); decimal amounts are not among the inputs
valueHex(valueParam) ==
    IF startsWith0x(valueParam) THEN valueParam ELSE toHex(0)

\* extractEvmTxCall throws while it maps the params: parseEther throws for
\* a value that is not hex and not a decimal number
extractThrows(toolCall) ==
    /\ toolCall.hasParams
    /\ \E n \in 1..Len(toolCall.params) :
          LET valueParam == toolCall.params[n].value
          IN  /\ ~startsWith0x(valueParam)
              /\ \E m \in 1..Len(valueParam) :
                    valueParam[m] \notin {HEX_DIGITS[k] : k \in 1..10}
                                           \cup {"."}

\* the fragment of one tool call; of a call only to and value are kept
extractEvmTxCall(toolCall, address) ==
    LET params == IF toolCall.hasParams THEN toolCall.params ELSE <<>>
        chainIdHex == toHex(IF toolCall.chainId \notin {<<>>, <<"0">>}
                            THEN parseInt(toolCall.chainId)
                            ELSE BASE_CHAIN_ID)
        calls == [i \in 1..Len(params) |->
                    [to |-> params[i].to, value |-> valueHex(params[i].value)]]
        fromParam == IF params = <<>> THEN <<>> ELSE params[1].from
    IN  [version |-> VERSION_1_0_0,
         chainId |-> chainIdHex,
         from |-> IF fromParam # <<>> THEN fromParam ELSE address,
         calls |-> calls]

\* the fragment pushed for a swap tool call whose result has a transaction
\* with params; of a call only to and value are kept
swapTxCall(toolCall, address) ==
    LET params == toolCall.params
        fromParam == IF params = <<>> THEN <<>> ELSE params[1].from
    IN  [version |-> VERSION_1_0_0,
         chainId |-> toHex(IF toolCall.chainId \notin {<<>>, <<"0">>}
                           THEN parseInt(toolCall.chainId)
                           ELSE BASE_CHAIN_ID),
         from |-> IF fromParam # <<>> THEN fromParam ELSE address,
         calls |-> [i \in 1..Len(params) |->
                      [to |-> params[i].to,
                       value |-> IF params[i].value # <<>>
                                 THEN params[i].value
                                 ELSE <<"0","x","0">>]]]

\* the tool calls that get a fragment: the swap calls whose result has a
\* transaction with params if there is any swap call, else the
\* generate-evm-tx calls
fragmentSources(toolCalls) ==
    LET swapCalls == {i \in 1..Len(toolCalls) : toolCalls[i].toolName = "swap"}
    IN  IF swapCalls # {}
        THEN {i \in swapCalls : toolCalls[i].hasParams}
        ELSE {i \in 1..Len(toolCalls) :
                toolCalls[i].toolName = "generate-evm-tx"}

\* the fragments pushed onto evmTxCalls for the tool calls from i on, each
\* with the tool call it is made for
RECURSIVE pushTxCalls(_, _, _)
pushTxCalls(toolCalls, i, address) ==
    IF i > Len(toolCalls) THEN <<>>
    ELSE (IF i \in fragmentSources(toolCalls)
          THEN <<[toolCall |-> i,
                  txCall |-> IF toolCalls[i].toolName = "swap"
                             THEN swapTxCall(toolCalls[i], address)
                             ELSE extractEvmTxCall(toolCalls[i], address)]>>
          ELSE <<>>)
         \o pushTxCalls(toolCalls, i + 1, address)

\* `${txCall.chainId}-${txCall.from}-${txCall.version}`, with the key of a
\* variant that groups by chain alone before it
groupKeyChainOnly(txCall) == txCall.chainId

groupKey(txCall) ==
    txCall.chainId \o <<"-">> \o txCall.from \o <<"-">> \o txCall.version

\* existingGroup.calls.push(...txCall.calls), with a variant that puts the
\* new calls in front before it
pushFront(calls, items) == items \o calls

push(calls, items) == calls \o items

\* the Map after the loop over txCalls from entry i on, as the list of its
\* entries in insertion order, and the arrays after the loop; the calls of
\* a fragment and of a Map value are indexes into heap, and a new Map value
\* takes the index of its first fragment
RECURSIVE groupedTxs(_, _, _, _)
groupedTxs(txCalls, i, map, heap) ==
    IF i > Len(txCalls) THEN [map |-> map, heap |-> heap]
    ELSE LET txCall == txCalls[i]
             key == groupKey(txCall)
             hit == {j \in 1..Len(map) : map[j].key = key}
         IN  IF hit # {}
             THEN LET existingGroup == map[CHOOSE j \in hit : TRUE].value
                  IN  groupedTxs(txCalls, i + 1, map,
                          [heap EXCEPT ![existingGroup.calls] =
                                           push(@, heap[txCall.calls])])
             ELSE groupedTxs(txCalls, i + 1,
                      Append(map, [key |-> key,
                                   value |-> [version |-> txCall.version,
                                              chainId |-> txCall.chainId,
                                              from |-> txCall.from,
                                              calls |-> txCall.calls]]),
                      heap)

\* content of the message sendMessage gets for Map value walletParams
walletSendCallsContent(walletParams, heap) ==
    [version |-> walletParams.version, chainId |-> walletParams.chainId,
     from |-> walletParams.from, calls |-> heap[walletParams.calls]]

\* the agent response with the tool calls has arrived
PipelineIdle ==
    /\ retries = MAX_RETRIES
    /\ timers = 0
    /\ exited = FALSE
    /\ loops = SetToBag({NewLoop})
    /\ history = [c \in Conversations |-> <<>>]
    /\ delivered = 0
    /\ started = 1
    /\ scheduled = 0
    /\ onFailCalls = 0
    /\ welcomes = [c \in Conversations |-> 0]
    /\ last = NoOutcome

InitAggregator ==
    /\ PipelineIdle
    /\ agentCall = <<>>
    /\ txToolCalls \in UNION { [1..n -> TxToolCalls] : n \in 0..MaxFragments }
    /\ extraction = "pending"
    /\ evmTxCalls = <<>>
    /\ arrays = <<>>
    /\ groupedRuns = <<>>
    /\ NormalizerIdle
    /\ DispatcherIdle

\* evmTxCalls is filled: from the swap calls if there is one, else from
\* directEvmTxCalls, every generate-evm-tx call mapped by extractEvmTxCall.
\* An exception of extractEvmTxCall leaves the block for the catch of the
\* event. The calls array of the fragment of tool call i is array i.
ExtractTxCalls ==
    /\ txToolCalls # <<>>
    /\ extraction = "pending"
    /\ LET sources == fragmentSources(txToolCalls)
           pushed == pushTxCalls(txToolCalls, 1, addressFromInboxId)
       IN  IF \E i \in sources : /\ txToolCalls[i].toolName = "generate-evm-tx"
                                  /\ extractThrows(txToolCalls[i])
           THEN /\ extraction' = "threw"
                /\ UNCHANGED <<evmTxCalls, arrays>>
           ELSE /\ extraction' = "done"
                /\ evmTxCalls' = [f \in 1..Len(pushed) |->
                                    [pushed[f].txCall EXCEPT
                                        !.calls = pushed[f].toolCall]]
                /\ arrays' = [i \in 1..Len(txToolCalls) |->
                                IF \E f \in 1..Len(pushed) :
                                      pushed[f].toolCall = i
                                THEN LET f == CHOOSE f \in 1..Len(pushed) :
                                                 pushed[f].toolCall = i
                                     IN  pushed[f].txCall.calls
                                ELSE <<>>]
    /\ UNCHANGED <<pipelineVars, txToolCalls, groupedRuns, normalizerVars,
                   dispatcherVars, agentCall>>

\* the grouping loop over evmTxCalls and the loop that sends every Map
\* value; given is what the arrays held when the run began
GroupAndSend ==
    /\ extraction = "done"
    /\ Len(groupedRuns) < MaxRuns
    /\ LET res == groupedTxs(evmTxCalls, 1, <<>>, arrays)
       IN  /\ arrays' = res.heap
           /\ groupedRuns' =
                 Append(groupedRuns,
                        [given |-> arrays,
                         sent |-> [j \in 1..Len(res.map) |->
                                     walletSendCallsContent(res.map[j].value,
                                                            res.heap)]])
    /\ UNCHANGED <<pipelineVars, txToolCalls, extraction, evmTxCalls,
                   normalizerVars, dispatcherVars, agentCall>>

NextAggregator ==
    \/ ExtractTxCalls
    \/ GroupAndSend

SpecAggregator == InitAggregator /\ [][NextAggregator]_vars

(***************************************************************************)
(* Signing requests: convertEvmTxToWalletSendCalls and the tool-call loop  *)
(* of handleStream                                                         *)
(***************************************************************************)
\* a JSON value: t is "object", "string", "number", "null" or "undefined",
\* s the characters of a string or a number, f the members of an object as
\* records [k, v] in document order
JsonValue(t, s, f) == [t |-> t, s |-> s, f |-> f]
JsonUndefined == JsonValue("undefined", <<>>, <<>>)
EmptyObject == JsonValue("object", <<>>, <<>>)

\* result of a parsing step: the value and the text after it, or a
\* SyntaxError
Parsed(v, rest) == [ok |-> TRUE, v |-> v, rest |-> rest]
SyntaxError == [ok |-> FALSE, v |-> JsonUndefined, rest |-> <<>>]

DecimalDigits == {"0","1","2","3","4","5","6","7","8","9"}

\* JSON.parse for text without white space and escapes, made of objects,
\* strings, non-negative integers and null
RECURSIVE parseString(_, _)
RECURSIVE parseDigits(_, _)
RECURSIVE parseMembers(_, _)
RECURSIVE parseValue(_)
parseString(s, acc) ==
    IF s = <<>> THEN SyntaxError
    ELSE IF Head(s) = "\"" THEN Parsed(JsonValue("string", acc, <<>>), Tail(s))
    ELSE parseString(Tail(s), Append(acc, Head(s)))

parseDigits(s, acc) ==
    IF s # <<>> /\ Head(s) \in DecimalDigits
    THEN parseDigits(Tail(s), Append(acc, Head(s)))
    ELSE Parsed(JsonValue("number", acc, <<>>), s)

parseMembers(s, f) ==
    IF s = <<>> \/ Head(s) # "\"" THEN SyntaxError
    ELSE LET k == parseString(Tail(s), <<>>)
         IN  IF ~k.ok \/ k.rest = <<>> \/ Head(k.rest) # ":" THEN SyntaxError
             ELSE LET v == parseValue(Tail(k.rest))
                      f2 == Append(f, [k |-> k.v.s, v |-> v.v])
                  IN  IF ~v.ok \/ v.rest = <<>> THEN SyntaxError
                      ELSE IF Head(v.rest) = ","
                      THEN parseMembers(Tail(v.rest), f2)
                      ELSE IF Head(v.rest) = "}"
                      THEN Parsed(JsonValue("object", <<>>, f2), Tail(v.rest))
                      ELSE SyntaxError

parseValue(s) ==
    IF s = <<>> THEN SyntaxError
    ELSE IF Head(s) = "{"
    THEN IF Len(s) >= 2 /\ s[2] = "}"
         THEN Parsed(EmptyObject, SubSeq(s, 3, Len(s)))
         ELSE parseMembers(Tail(s), <<>>)
    ELSE IF Head(s) = "\"" THEN parseString(Tail(s), <<>>)
    ELSE IF Head(s) \in DecimalDigits THEN parseDigits(s, <<>>)
    ELSE IF Len(s) >= 4 /\ SubSeq(s, 1, 4) = <<"n","u","l","l">>
    THEN Parsed(JsonValue("null", <<>>, <<>>), SubSeq(s, 5, Len(s)))
    ELSE SyntaxError

JSON_parse(s) ==
    LET r == parseValue(s)
    IN  IF r.ok /\ r.rest = <<>> THEN r ELSE SyntaxError

\* v[key] of a value that is neither null nor undefined
get(v, key) ==
    LET hit == {i \in 1..Len(v.f) : v.f[i].k = key}
    IN  IF v.t = "object" /\ hit # {}
        THEN v.f[CHOOSE i \in hit : \A j \in hit : j <= i].v
        ELSE JsonUndefined

\* v is truthy
truthy(v) ==
    \/ v.t = "object"
    \/ v.t = "string" /\ v.s # <<>>
    \/ v.t = "number" /\ v.s # <<"0">>

Quote(s) == <<"\"">> \o s \o <<"\"">>

RECURSIVE JSON_stringify(_)
RECURSIVE stringifyMembers(_, _)
JSON_stringify(v) ==
    IF v.t = "object" THEN <<"{">> \o stringifyMembers(v.f, 1) \o <<"}">>
    ELSE IF v.t = "string" THEN Quote(v.s)
    ELSE IF v.t = "number" THEN v.s
    ELSE <<"n","u","l","l">>

stringifyMembers(f, i) ==
    IF i > Len(f) THEN <<>>
    ELSE (IF i > 1 THEN <<",">> ELSE <<>>)
         \o Quote(f[i].k) \o <<":">> \o JSON_stringify(f[i].v)
         \o stringifyMembers(f, i + 1)

K_domain == <<"d","o","m","a","i","n">>
K_verifyingContract ==
    <<"v","e","r","i","f","y","i","n","g","C","o","n","t","r","a","c","t">>

\* texts the second parameter of a typed-data request can be: no JSON, a
\* number, null, objects without domain, with a null, an empty and a full
\* domain
TypedDataTexts ==
    { <<"{">>,
      <<"5">>,
      <<"n","u","l","l">>,
      <<"{","}">>,
      <<"{">> \o Quote(K_domain) \o <<":","n","u","l","l","}">>,
      <<"{">> \o Quote(K_domain) \o <<":","{","}","}">>,
      <<"{">> \o Quote(K_domain) \o <<":","{">> \o Quote(K_verifyingContract)
          \o <<":">> \o Quote(TARGET_1) \o <<"}","}">> }

\* an element of signRequest.params: a string, or a transaction object
\* with or without the key "to" and with the fields from, data and value
\* (<<>> is a field that is undefined)
ParamObject(hasTo, to, from, data, value) ==
    [t |-> "object", s |-> <<>>, hasTo |-> hasTo, to |-> to, from |-> from,
     data |-> data, value |-> value]
ParamString(s) ==
    [ParamObject(FALSE, <<>>, <<>>, <<>>, <<>>) EXCEPT !.t = "string", !.s = s]
ParamUndefined ==
    [ParamObject(FALSE, <<>>, <<>>, <<>>, <<>>) EXCEPT !.t = "undefined"]

\* params[i - 1]
elem(params, i) == IF i <= Len(params) THEN params[i] ELSE ParamUndefined

MESSAGE_HEX == <<"0","x","6","8">>

SignParamLists ==
    { <<>>,
      <<ParamObject(TRUE, TARGET_1, <<>>, <<>>, <<>>)>>,
      <<ParamObject(TRUE, TARGET_1, otherAddress, MESSAGE_HEX, <<"0","x","1">>),
        ParamObject(TRUE, TARGET_2, <<>>, <<>>, <<>>)>>,
      <<ParamObject(FALSE, <<>>, <<>>, MESSAGE_HEX, <<>>)>>,
      <<ParamString(MESSAGE_HEX), ParamString(otherAddress)>>,
      <<ParamString(otherAddress), ParamString(MESSAGE_HEX)>>,
      <<ParamString(otherAddress)>> }
    \cup { <<ParamString(otherAddress), ParamString(d)>> : d \in TypedDataTexts }

signMethods ==
    {"eth_sendTransaction", "personal_sign", "eth_sign", "eth_signTypedData",
     "eth_signTypedData_v4"}

\* a method the agent can name that is not one of signMethods
OTHER_METHOD == "wallet_switchEthereumChain"

SignRequest(method, chainId, hasParams, params) ==
    [method |-> method, chainId |-> chainId, hasParams |-> hasParams,
     params |-> params]

SignChainIds == {1, BASE_CHAIN_ID}

SignRequests ==
    { SignRequest(m, c, TRUE, ps) : m \in signMethods \cup {OTHER_METHOD},
                                    c \in SignChainIds, ps \in SignParamLists }
    \cup { SignRequest(m, c, FALSE, <<>>) :
             m \in signMethods \cup {OTHER_METHOD}, c \in SignChainIds }

\* eth_sendTransaction requests with at least one transaction
SendRequests ==
    { r \in SignRequests : /\ r.method = "eth_sendTransaction"
                           /\ r.params # <<>>
                           /\ r.params[1].hasTo }

chainIdToHex(chainId) == toHex(chainId)

VERSION_1_0 == <<"1",".","0">>

\* a String that counts from one
StringFromOne(n) == <<HEX_DIGITS[((n + 1) % 10) + 1]>>

\* String(n) of a non-negative integer
RECURSIVE String(_)
String(n) ==
    IF n < 10 THEN <<HEX_DIGITS[n + 1]>>
    ELSE String(n \div 10) \o <<HEX_DIGITS[(n % 10) + 1]>>

\* metadata of a call descriptor: transactionType, callIndex, signer and
\* domain (<<>> is a field it does not have); the descriptive texts are
\* not kept
Metadata(transactionType, callIndex, signer, domain) ==
    [transactionType |-> transactionType, callIndex |-> callIndex,
     signer |-> signer, domain |-> domain]

\* a call descriptor: to (if it has the key), data, value and metadata; the
\* data of a typed-data call, the hex of the bytes of the text, is not kept
Call(hasTo, to, data, value, metadata) ==
    [hasTo |-> hasTo, to |-> to, data |-> data, value |-> value,
     metadata |-> metadata]

WalletSendCalls(version, chainId, from, calls) ==
    [version |-> version, chainId |-> chainId, from |-> from, calls |-> calls]

NoFragment == WalletSendCalls(<<>>, <<>>, <<>>, <<>>)

\* how a call of convertEvmTxToWalletSendCalls ended
Returned(value) == [ok |-> TRUE, error |-> "", value |-> value]
Thrown(error) == [ok |-> FALSE, error |-> error, value |-> NoFragment]

UNSUPPORTED == "Unsupported signing method"
PARSE_FAILED == "Failed to parse typed data"
TYPE_ERROR == "TypeError"

convertEvmTxToWalletSendCalls(evmSignRequest, userAddress) ==
    LET method == evmSignRequest.method
        params == evmSignRequest.params
        chainId == chainIdToHex(evmSignRequest.chainId)
    IN  IF method \notin signMethods THEN Thrown(UNSUPPORTED)
        ELSE IF ~evmSignRequest.hasParams THEN Thrown(TYPE_ERROR)
        ELSE IF method = "eth_sendTransaction"
        THEN Returned(WalletSendCalls(VERSION_1_0, chainId, userAddress,
                 [i \in 1..Len(params) |->
                    Call(TRUE, params[i].to, params[i].data, params[i].value,
                         Metadata(method, String(i - 1), <<>>, <<>>))]))
        ELSE IF method = "personal_sign"
        THEN Returned(WalletSendCalls(VERSION_1_0, chainId, elem(params, 2).s,
                 <<Call(FALSE, <<>>, elem(params, 1).s, <<>>,
                        Metadata(method, <<>>, elem(params, 2).s, <<>>))>>))
        ELSE IF method = "eth_sign"
        THEN Returned(WalletSendCalls(VERSION_1_0, chainId, elem(params, 1).s,
                 <<Call(FALSE, <<>>, elem(params, 2).s, <<>>,
                        Metadata(method, <<>>, elem(params, 1).s, <<>>))>>))
        ELSE LET typedDataJSON == elem(params, 2)
                 typedData == IF typedDataJSON.t = "string"
                              THEN JSON_parse(typedDataJSON.s)
                              ELSE SyntaxError
                 domain == get(typedData.v, K_domain)
             IN  IF ~typedData.ok THEN Thrown(PARSE_FAILED)
                 ELSE IF typedData.v.t = "null" THEN Thrown(TYPE_ERROR)
                 ELSE Returned(WalletSendCalls(VERSION_1_0, chainId,
                          elem(params, 1).s,
                          <<Call(FALSE, <<>>, <<>>, <<>>,
                                 Metadata(method, <<>>, elem(params, 1).s,
                                          JSON_stringify(IF truthy(domain)
                                                         THEN domain
                                                         ELSE EmptyObject)))>>))

\* what the body of handleStream's loop over completion.toolCalls does with
\* the sign request of tool call i: the messages it sends, and whether it
\* reports an error
handleToolCall(i, signRequest, address) ==
    LET params == signRequest.params
        chainId == <<"0", "x">> \o toString16(signRequest.chainId)
        typedDataJson == elem(params, 2)
        typedData == IF typedDataJson.t = "string"
                     THEN JSON_parse(typedDataJson.s)
                     ELSE SyntaxError
        failed == ~typedData.ok \/ typedData.v.t = "null"
        domain == get(typedData.v, K_domain)
        verifyingContract ==
            IF domain.t \in {"null", "undefined"} THEN JsonUndefined
            ELSE get(domain, K_verifyingContract)
        message(calls) ==
            [toolCall |-> i,
             content |-> WalletSendCalls(VERSION_1_0, chainId, address, calls)]
    IN  IF signRequest.method = "eth_signTypedData_v4"
        THEN IF ~(signRequest.hasParams /\ Len(params) >= 2)
             THEN [sent |-> <<>>, reported |-> {}]
             ELSE IF failed THEN [sent |-> <<>>, reported |-> {i}]
             ELSE IF truthy(verifyingContract)
             THEN [sent |-> <<message(<<Call(TRUE, verifyingContract.s,
                                             <<"0","x">>, <<"0","x","0">>,
                                             Metadata("", <<>>, <<>>, <<>>))>>)>>,
                   reported |-> {}]
             ELSE [sent |-> <<>>, reported |-> {}]
        ELSE IF /\ signRequest.hasParams
                /\ Len(params) > 0
                /\ params[1].t = "object"
                /\ params[1].hasTo
        THEN [sent |-> <<message([n \in 1..Len(params) |->
                         Call(TRUE, params[n].to,
                              IF params[n].data # <<>> THEN params[n].data
                              ELSE <<"0","x">>,
                              IF params[n].value # <<>> THEN params[n].value
                              ELSE <<"0","x","0">>,
                              Metadata("", <<>>, <<>>, <<>>))])>>,
              reported |-> {}]
        ELSE [sent |-> <<>>, reported |-> {}]

\* the loop over the tool calls from entry i on
RECURSIVE handleToolCalls(_, _, _)
handleToolCalls(requests, i, address) ==
    IF i > Len(requests) THEN [sent |-> <<>>, reported |-> {}]
    ELSE LET one == handleToolCall(i, requests[i], address)
             more == handleToolCalls(requests, i + 1, address)
         IN  [sent |-> one.sent \o more.sent,
              reported |-> one.reported \cup more.reported]

\* an agent response with one sign request of any kind or with two
\* eth_sendTransaction requests has arrived
InitNormalizer ==
    /\ PipelineIdle
    /\ agentCall = <<>>
    /\ AggregatorIdle
    /\ DispatcherIdle
    /\ signRequests \in { <<r>> : r \in SignRequests }
                        \cup { <<r, q>> : r \in SendRequests, q \in SendRequests }
    /\ converted = <<>>
    /\ handled = <<>>

\* convertEvmTxToWalletSendCalls is called for every sign request
Convert ==
    /\ converted = <<>>
    /\ converted' = [i \in 1..Len(signRequests) |->
                       convertEvmTxToWalletSendCalls(signRequests[i],
                                                     addressFromInboxId)]
    /\ UNCHANGED <<pipelineVars, aggregatorVars, dispatcherVars, agentCall,
                   signRequests, handled>>

\* handleStream works through the tool calls of the response
HandleToolCalls ==
    /\ handled = <<>>
    /\ handled' = <<handleToolCalls(signRequests, 1, addressFromInboxId)>>
    /\ UNCHANGED <<pipelineVars, aggregatorVars, dispatcherVars, agentCall,
                   signRequests, converted>>

NextNormalizer ==
    \/ Convert
    \/ HandleToolCalls

SpecNormalizer == InitNormalizer /\ [][NextNormalizer]_vars

\* the signer read from the first parameter whatever the method
firstParamAsSigner(evmSignRequest) ==
    Returned(elem(evmSignRequest.params, 1).s)

\* extractSignerAddress of src/helpers/transaction-helpers.ts: the address a
\* sign request names as its signer; for eth_sendTransaction the from of the
\* first transaction, or the zero address (here "0x00") when it has none
extractSignerAddress(evmSignRequest) ==
    LET method == evmSignRequest.method
        params == evmSignRequest.params
    IN  IF method \notin signMethods THEN Thrown(UNSUPPORTED)
        ELSE IF ~evmSignRequest.hasParams THEN Thrown(TYPE_ERROR)
        ELSE IF method = "eth_sendTransaction"
        THEN Returned(IF elem(params, 1).from # <<>> THEN elem(params, 1).from
                      ELSE <<"0","x","0","0">>)
        ELSE IF method = "personal_sign" THEN Returned(elem(params, 2).s)
        ELSE Returned(elem(params, 1).s)

(***************************************************************************)
(* Output dispatcher: sendMessage of src/helpers/config.ts, in its two     *)
(* versions, and the text reply of src/scripts/test-connection.ts          *)
(***************************************************************************)

\* what conversation.send gets as content: the content itself, or an object
\* {reference, content, contentType} around it
Payload(wrapped, content, contentType, reference) ==
    [wrapped |-> wrapped, content |-> content, contentType |-> contentType,
     reference |-> reference]

\* a sendMessage that threads every payload sent into a group
sendMessageAlwaysThreads(args) ==
    IF ~args.isGroup
    THEN [content |-> Payload(FALSE, args.content, "", ""),
          contentType |-> args.contentType]
    ELSE [content |-> Payload(TRUE, args.content, args.contentType,
                              args.reference),
          contentType |-> "reply"]

\* sendMessage with a required reference: the content and the type that
\* conversation.send gets
sendMessage(args) ==
    IF ~args.isGroup \/ args.contentType = "reaction"
    THEN [content |-> Payload(FALSE, args.content, "", ""),
          contentType |-> args.contentType]
    ELSE [content |-> Payload(TRUE, args.content, args.contentType,
                              args.reference),
          contentType |-> IF args.contentType = "walletSendCalls"
                          THEN args.contentType ELSE "reply"]

\* a sendMessage that never threads
sendMessageNeverThreads(args) ==
    [content |-> Payload(FALSE, args.content, "", ""),
     contentType |-> args.contentType]

\* sendMessage with an optional reference ("" is a reference that is
\* undefined or empty); referenceInboxId is not kept
sendMessageOptionalReference(args) ==
    IF args.reference = "" \/ ~args.isGroup \/ args.contentType = "reaction"
    THEN [content |-> Payload(FALSE, args.content, "", ""),
          contentType |-> args.contentType]
    ELSE [content |-> Payload(TRUE, args.content, args.contentType,
                              args.reference),
          contentType |-> IF args.contentType = "walletSendCalls"
                          THEN args.contentType ELSE "reply"]

\* the text sent in place of an agent text that holds transaction data
errorMessage ==
    <<"I", " ", "n", "e", "e", "d", " ", "t", "o", " ", "p", "r", "e", "p",
      "a", "r", "e", " ", "a", " ", "t", "r", "a", "n", "s", "a", "c", "t",
      "i", "o", "n", " ", "f", "o", "r", " ", "y", "o", "u", ".", " ", "P",
      "l", "e", "a", "s", "e", " ", "t", "r", "y", " ", "y", "o", "u", "r",
      " ", "r", "e", "q", "u", "e", "s", "t", " ", "a", "g", "a", "i", "n",
      ",", " ", "a", "n", "d", " ", "I", "'", "l", "l", " ", "f", "o", "r",
      "m", "a", "t", " ", "i", "t", " ", "p", "r", "o", "p", "e", "r", "l",
      "y", " ", "f", "o", "r", " ", "y", "o", "u", "r", " ", "w", "a", "l",
      "l", "e", "t", ".">>

\* a test for transaction data that compares without lowering the case
containsTransactionDataCaseSensitive(text) ==
    \/ includes(text, <<"p", "l", "e", "a", "s", "e", " ", "s", "i", "g", "n">>)
    \/ includes(text, <<"w", "a", "l", "l", "e", "t", "_", "s", "e", "n", "d",
                        "C", "a", "l", "l", "s">>)

\* an agent text is blocked when its lower-case form includes the lower-case
\* form of one of the indicators
containsTransactionData(text) ==
    LET transactionIndicators == {
           <<"p", "e", "r", "m", "i", "t", "2">>,
           <<"s", "i", "g", "n", "a", "t", "u", "r", "e", " ", "r", "e",
             "q", "u", "e", "s", "t">>,
           <<"s", "i", "g", "n", " ", "t", "h", "i", "s">>,
           <<"v", "e", "r", "i", "f", "y", "i", "n", "g", "c", "o", "n",
             "t", "r", "a", "c", "t">>,
           <<"d", "o", "m", "a", "i", "n", ":">>,
           <<"m", "e", "s", "s", "a", "g", "e", ":">>,
           <<"n", "o", "n", "c", "e", ":">>,
           <<"d", "e", "a", "d", "l", "i", "n", "e", ":">>,
           <<"0", "x", "0", "0", "0", "0", "0", "0", "0", "0", "0", "0",
             "2", "2", "d", "4", "7", "3", "0", "3", "0", "f", "1", "1",
             "6", "d", "d", "e", "e", "9", "f", "6", "b", "4", "3", "a",
             "c", "7", "8", "b", "a", "3">>,
           <<"e", "t", "h", "_", "s", "i", "g", "n", "T", "y", "p", "e",
             "d", "D", "a", "t", "a">>,
           <<"w", "a", "l", "l", "e", "t", "_", "s", "e", "n", "d", "C",
             "a", "l", "l", "s">>,
           <<"t", "r", "a", "n", "s", "a", "c", "t", "i", "o", "n", " ",
             "d", "a", "t", "a">>,
           <<"p", "l", "e", "a", "s", "e", " ", "s", "i", "g", "n">>}
        lowerText == toLowerCase(text)
    IN  \E indicator \in transactionIndicators :
           includes(lowerText, toLowerCase(indicator))

\* contents of a payload; as texts of the agent: none, two without an
\* indicator, and two that hold one in another case
AgentTexts ==
    {<<>>,
     <<"g", "m">>,
     <<"n", "o", "n", "c", "e", " ", "5", " ", "p", "l", "e", "a", "s",
       "e", " ", "s", "i", "g">>,
     <<"P", "l", "e", "a", "s", "e", " ", "S", "i", "g", "n", " ", "i",
       "t">>,
     <<"u", "s", "e", " ", "W", "A", "L", "L", "E", "T", "_", "S", "E",
       "N", "D", "C", "A", "L", "L", "S">>}

\* step 5 of the loop: the text of the agent, or the notice that replaces
\* it, sent by the loop itself; nothing is sent ("none") for an empty text
\* and in answer to a transaction reference
sendTextInline(args) ==
    LET text == IF containsTransactionData(args.content)
                THEN errorMessage ELSE args.content
    IN  IF args.content = <<>> \/ args.isTransactionReference
        THEN [content |-> Payload(FALSE, <<>>, "", ""), contentType |-> "none"]
        ELSE IF args.isGroup
        THEN [content |-> Payload(TRUE, text, "text", args.reference),
              contentType |-> "reply"]
        ELSE [content |-> Payload(FALSE, text, "", ""),
              contentType |-> "text"]

\* a payload is about to be sent: any content type, to a group or not, with
\* the id of the triggering message as reference or without reference, in
\* answer to a transaction reference or to another message
InitDispatcher ==
    /\ PipelineIdle
    /\ agentCall = <<>>
    /\ AggregatorIdle
    /\ NormalizerIdle
    /\ sendArgs \in [content : AgentTexts,
                     contentType : {"text", "reaction", "reply",
                                    "walletSendCalls", "transactionReference"},
                     reference : {"", "message1", "message2"},
                     isGroup : BOOLEAN,
                     isTransactionReference : BOOLEAN]
    /\ wire = <<>>

\* the payload is sent by one of the senders; the loop itself sends texts
\* only and has the id of the message as reference
Send(by) ==
    /\ \A n \in 1..Len(wire) : wire[n].by # by
    /\ by = "inline" => sendArgs.contentType = "text" /\ sendArgs.reference # ""
    /\ wire' = Append(wire,
                      [by |-> by,
                       sent |-> CASE by = "sendMessage" -> sendMessage(sendArgs)
                                  [] by = "sendMessageOptionalReference" ->
                                        sendMessageOptionalReference(sendArgs)
                                  [] by = "inline" -> sendTextInline(sendArgs)])
    /\ UNCHANGED <<pipelineVars, aggregatorVars, normalizerVars, sendArgs,
                   agentCall>>

NextDispatcher ==
    \E by \in {"sendMessage", "sendMessageOptionalReference", "inline"} :
       Send(by)

SpecDispatcher == InitDispatcher /\ [][NextDispatcher]_vars

(***************************************************************************)
(* Agent client: the retrying sendToAgent of src/unnamed/part_006          *)
(***************************************************************************)
\* const maxRetries = 3
maxRetries == 3

\* outcomes of one fetch: an HTTP status, or 0 when fetch or response.text()
\* rejects
FetchOutcomes == {0, 200, 400, 401, 429, 500, 503}

isRetryableError(status) == status >= 500 \/ status = 429

\* Math.min(1000 * 2 ** (attempt - 1), 10000)
getDelayMs(attempt) ==
    IF 1000 * 2^(attempt - 1) < 10000 THEN 1000 * 2^(attempt - 1) ELSE 10000

\* the response sendToAgent returns: request is the request whose body was
\* parsed, 0 for the response made up after the last attempt
AgentResponse(request, content, finishReason, isError) ==
    [request |-> request, content |-> content, finishReason |-> finishReason,
     toolCalls |-> <<>>, isError |-> isError]

\* sendToAgent has built its payload and enters the loop with attempt = 1
InitAgentCall ==
    /\ PipelineIdle
    /\ AggregatorIdle
    /\ NormalizerIdle
    /\ DispatcherIdle
    /\ agentCall = [pc |-> "fetch", attempt |-> 1, requests |-> <<>>,
                    delay |-> 0, result |-> <<>>]

\* a Fetch that lets the error of the last attempt leave the function
FetchRethrows(outcome) ==
    /\ agentCall # <<>>
    /\ agentCall.pc = "fetch"
    /\ agentCall' =
          [agentCall EXCEPT
             !.requests = Append(@, outcome),
             !.pc = IF outcome # 200 /\ agentCall.attempt < maxRetries
                    THEN "sleep"
                    ELSE IF outcome = 200 THEN "returned" ELSE "thrown",
             !.result = IF outcome = 200
                        THEN <<AgentResponse(agentCall.attempt, "parsed",
                                             "stop", FALSE)>>
                        ELSE <<>>]
    /\ UNCHANGED <<pipelineVars, aggregatorVars, normalizerVars,
                   dispatcherVars>>

\* one pass of the try block: the request settles with outcome. An OK
\* response is parsed and returned. A status that is not OK is thrown when
\* the attempt is the last or the status is not retryable, and the catch,
\* like the branch for a retryable status, sleeps and goes on to the next
\* attempt unless this was the last one; after the loop the made-up
\* response is returned.
Fetch(outcome) ==
    /\ agentCall # <<>>
    /\ agentCall.pc = "fetch"
    /\ LET attempt == agentCall.attempt
           thrown == \/ outcome = 0
                     \/ outcome # 200 /\ (\/ attempt = maxRetries
                                          \/ ~isRetryableError(outcome))
           sleeps == IF thrown THEN attempt # maxRetries ELSE outcome # 200
       IN  agentCall' =
              [agentCall EXCEPT
                 !.requests = Append(@, outcome),
                 !.pc = IF sleeps THEN "sleep" ELSE "returned",
                 !.delay = IF sleeps THEN getDelayMs(attempt) ELSE 0,
                 !.result =
                    IF sleeps THEN <<>>
                    ELSE IF outcome = 200
                    THEN <<AgentResponse(attempt, "parsed", "stop", FALSE)>>
                    ELSE <<AgentResponse(0, "apology", "error", TRUE)>>]
    /\ UNCHANGED <<pipelineVars, aggregatorVars, normalizerVars,
                   dispatcherVars>>

\* the timer of sleep(getDelayMs(attempt)) fires: the next attempt begins
Sleep ==
    /\ agentCall # <<>>
    /\ agentCall.pc = "sleep"
    /\ agentCall' = [agentCall EXCEPT !.pc = "fetch", !.attempt = @ + 1,
                                      !.delay = 0]
    /\ UNCHANGED <<pipelineVars, aggregatorVars, normalizerVars,
                   dispatcherVars>>

NextAgentCall ==
    \/ \E outcome \in FetchOutcomes : Fetch(outcome)
    \/ Sleep

\* every request settles and every timer fires
SpecAgentCall ==
    InitAgentCall /\ [][NextAgentCall]_vars /\ WF_vars(NextAgentCall)

(***************************************************************************)
(* Properties                                                              *)
(***************************************************************************)
\* output kind k is among the outputs o
InOuts(o, k) == \E i \in 1..Len(o) : o[i] = k

\* the agent wrote into the conversation of m before m arrived
PriorAgent(m) ==
    /\ m.conv \in Conversations
    /\ \E i \in 1..(m.id - 1) :
          i <= Len(history[m.conv]) /\ history[m.conv][i] = clientInboxId

\* the texts of Texts that hold one of the agent's handles in any case
HandleTexts == {T_bitte, T_addr, T_chat}

\* m is a reply to a message the agent wrote
RepliesToAgent(m) ==
    /\ m.ctype = "reply"
    /\ m.conv \in Conversations
    /\ m.ref \in 1..Len(history[m.conv])
    /\ history[m.conv][m.ref] = clientInboxId

\* s without leading and trailing blanks
RECURSIVE Trimmed(_)
Trimmed(s) ==
    IF s = <<>> THEN <<>>
    ELSE IF Head(s) = " " THEN Trimmed(Tail(s))
    ELSE IF s[Len(s)] = " " THEN Trimmed(SubSeq(s, 1, Len(s) - 1))
    ELSE s

\* C1: with the retry bound at 5, every failure before the exit schedules
\* exactly one reconnect, at most 5 reconnects are ever scheduled, and the
\* process exits on the 6th failure, which schedules none.
C1_StopsAfterFiveCycles ==
    /\ MAX_RETRIES = 5
    /\ scheduled = onFailCalls - (IF exited THEN 1 ELSE 0)
    /\ scheduled <= 5
    /\ started <= 6
    /\ exited => onFailCalls = 6 /\ scheduled = 5 /\ retries = 0

\* six invocations of handleStream failed and the process has exited
C1_Witness ==
    /\ exited
    /\ started = 6
    /\ onFailCalls = 6
    /\ loops = EmptyBag

C3_OneEventInPipeline ==
    \A r \in Running :
        r.pc \in InPipeline =>
            /\ CopiesIn(r, loops) = 1
            /\ \A q \in Running : q.pc \in InPipeline => q = r

\* C4: while the process runs there is a subscription that is open or being
\* opened, or a reconnect timer is pending.
C4_NeverIdle ==
    \/ exited
    \/ timers > 0
    \/ \E r \in Running : r.pc = "connecting" \/ r.stream = "open"

\* C5: an event sent by the agent itself never enters the pipeline and ends
\* dropped without any output.
C5_OwnEventsDropped ==
    /\ \A r \in Running : r.msg.sender # clientInboxId
    /\ last.msg.sender = clientInboxId =>
          last.how = "drop" /\ last.outs = <<>>

\* a reply of the agent that mentions the agent, in the group, was dropped
C5_Witness ==
    /\ last.msg.sender = clientInboxId
    /\ last.msg.ctype = "reply"
    /\ last.msg.conv = "grp"
    /\ last.how = "drop"

C7_BlankTextDropped ==
    /\ \A r \in Running :
          (r.msg.t = "str" /\ Trimmed(r.msg.s) = <<>>) => r.outs = <<>>
    /\ (last.msg.t = "str" /\ Trimmed(last.msg.s) = <<>>) => last.outs = <<>>

\* m is a text of another member, with content, in the group
GroupText(m) ==
    /\ m.sender = otherInboxId
    /\ isGroup(m.conv)
    /\ m.ctype = "text"
    /\ m.t = "str"
    /\ m.s # <<>>

\* C8: a text of another member in a group the agent never wrote into gets
\* the welcome and nothing else, whether it mentions the agent or not, and
\* is not sent to the agent; a later text without mention is dropped
\* without output.
C8_GroupWelcome ==
    /\ \A r \in Running :
          (GroupText(r.msg) /\ ~PriorAgent(r.msg))
              => r.pc \in {"lookup", "history", "welcome"} /\ r.outs = <<>>
    /\ (GroupText(last.msg) /\ ~PriorAgent(last.msg))
          => \/ last.how = "welcome" /\ last.outs = <<"welcome">>
             \/ last.how = "error" /\ last.outs = <<>>
    /\ (GroupText(last.msg) /\ PriorAgent(last.msg)
        /\ last.msg.s \notin HandleTexts)
          => last.how \in {"drop", "error"} /\ last.outs = <<>>

\* the group got its welcome and the text that came next, which mentions
\* nobody, was dropped
C8_Witness ==
    /\ welcomes["grp"] = 1
    /\ history["grp"] = <<otherInboxId, clientInboxId, otherInboxId>>
    /\ GroupText(last.msg)
    /\ last.msg.s = T_plain
    /\ last.how = "drop"

\* C9: at most one welcome is sent into a conversation, and the event that
\* got the welcome gets nothing else.
C9_OneWelcome ==
    /\ \A c \in Conversations : welcomes[c] <= 1
    /\ last.how = "welcome" => last.outs = <<"welcome">>

\* m is an event of another member in the group that has content and is no
\* membership change
GroupEvent(m) ==
    /\ m.sender = otherInboxId
    /\ isGroup(m.conv)
    /\ m.ctype \in {"text", "reply", "transactionReference"}
    /\ (m.t = "str" /\ m.s # <<>>) \/ (m.t = "reply" /\ m.s # <<>>)
          \/ m.t = "obj"

\* m holds a handle of the agent or replies to a message of the agent
Addressed(m) ==
    \/ m.t \in {"str", "reply"} /\ m.s \in HandleTexts
    \/ RepliesToAgent(m)

DmEvent(m) ==
    /\ m.sender = otherInboxId
    /\ isDm(m.conv)
    /\ m.ctype \in {"text", "reply"}
    /\ extractMessageContent(m) # <<>>

\* C11: the welcome rule and the mention-or-reply rule are for groups only:
\* in a direct conversation every text or reply of another member that has
\* content goes to the agent, whether the agent wrote there before or not
\* and whoever wrote the message replied to; it never gets the welcome.
C11_DmAlwaysProcessed ==
    /\ \A r \in Running : DmEvent(r.msg) => r.pc # "welcome"
    /\ DmEvent(last.msg)
          => /\ last.how \in {"done", "error"}
             /\ ~InOuts(last.outs, "welcome")
             /\ last.how = "done" => InOuts(last.outs, "agentCall")

\* the grouping key of a fragment or a batch as a triple
Triple(x) == <<x.chainId, x.from, x.version>>

\* the calls that the fragments of txCalls from entry i on with triple t
\* held in given, in the order of the fragments
RECURSIVE CallsGiven(_, _, _, _)
CallsGiven(txCalls, given, t, i) ==
    IF i > Len(txCalls) THEN <<>>
    ELSE (IF Triple(txCalls[i]) = t THEN given[txCalls[i].calls] ELSE <<>>)
         \o CallsGiven(txCalls, given, t, i + 1)

\* C12: in every run of the aggregator no two batches have the same
\* (chainId, from, version), and a batch holds calls of fragments with its
\* own triple only: each of its calls is a call of such a fragment and it
\* has no more calls than these fragments brought.
C12_GroupingInvariant ==
    \A k \in 1..Len(groupedRuns) :
       LET run == groupedRuns[k]
       IN  /\ \A i, j \in 1..Len(run.sent) :
                 i # j => Triple(run.sent[i]) # Triple(run.sent[j])
           /\ \A i \in 1..Len(run.sent) :
                 LET b == run.sent[i]
                     own == CallsGiven(evmTxCalls, run.given, Triple(b), 1)
                 IN  /\ Len(b.calls) <= Len(own)
                     /\ \A n \in 1..Len(b.calls) :
                           \E m \in 1..Len(own) : own[m] = b.calls[n]

\* two fragments on one chain with different senders, each with a call,
\* were sent as two batches
C12_Witness ==
    /\ Len(groupedRuns) = 1
    /\ Len(evmTxCalls) = 2
    /\ evmTxCalls[1].chainId = evmTxCalls[2].chainId
    /\ evmTxCalls[1].from # evmTxCalls[2].from
    /\ Len(groupedRuns[1].sent) = 2
    /\ \A i \in 1..2 : groupedRuns[1].sent[i].calls # <<>>

\* C13: a batch holds exactly the calls of the fragments with its key,
\* concatenated in the order the fragments arrived, and every fragment has
\* its batch: no call is lost, duplicated or reordered.
C13_ArrivalOrder ==
    \A k \in 1..Len(groupedRuns) :
       LET run == groupedRuns[k]
       IN  /\ \A i \in 1..Len(run.sent) :
                 run.sent[i].calls =
                    CallsGiven(evmTxCalls, run.given, Triple(run.sent[i]), 1)
           /\ \A f \in 1..Len(evmTxCalls) :
                 \E i \in 1..Len(run.sent) :
                    Triple(run.sent[i]) = Triple(evmTxCalls[f])

\* two fragments with one key and different calls were merged into one
\* batch, the call of the first fragment first
C13_Witness ==
    /\ Len(groupedRuns) = 1
    /\ Len(evmTxCalls) = 2
    /\ Triple(evmTxCalls[1]) = Triple(evmTxCalls[2])
    /\ Len(groupedRuns[1].sent) = 1
    /\ Len(groupedRuns[1].sent[1].calls) = 2
    /\ groupedRuns[1].sent[1].calls[1].to = TARGET_1
    /\ groupedRuns[1].sent[1].calls[2].to = TARGET_2

\* C15: the grouping step applied a second time to the same list of
\* fragments sends the same batches as the first time.
C15_SecondRunSameBatches ==
    \A k \in 2..Len(groupedRuns) : groupedRuns[k].sent = groupedRuns[1].sent

\* C16: no batch with an empty calls list is sent, also when the params of
\* a tool call are empty or missing.
C16_NoEmptyBatch ==
    \A k \in 1..Len(groupedRuns) :
       \A i \in 1..Len(groupedRuns[k].sent) :
          groupedRuns[k].sent[i].calls # <<>>

\* the targets of a list of transaction params or of calls
CallsOfParams(params) ==
    [n \in 1..Len(params) |-> [to |-> params[n].to]]

\* C14: an agent response with two send-transaction tool calls on chain
\* 8453 for one sender leads to exactly one batch, which holds the calls of
\* both in arrival order; not to two batches and not to the batch of the
\* last tool call alone.
C14_TwoToolCallsOneBatch ==
    (/\ Len(signRequests) = 2
     /\ \A i \in 1..2 : signRequests[i] \in SendRequests
     /\ \A i \in 1..2 : signRequests[i].chainId = BASE_CHAIN_ID
     /\ handled # <<>>)
        => /\ Len(handled[1].sent) = 1
           /\ CallsOfParams(handled[1].sent[1].content.calls) =
                 CallsOfParams(signRequests[1].params)
                    \o CallsOfParams(signRequests[2].params)

TypedDataMethods == {"eth_signTypedData", "eth_signTypedData_v4"}

SigningOnlyMethods == signMethods \ {"eth_sendTransaction"}

\* the second parameter of r is the text of a JSON object with a domain
\* member
WellFormedTypedData(r) ==
    /\ elem(r.params, 2).t = "string"
    /\ JSON_parse(elem(r.params, 2).s).ok
    /\ JSON_parse(elem(r.params, 2).s).v.t = "object"
    /\ \E n \in 1..Len(JSON_parse(elem(r.params, 2).s).v.f) :
          JSON_parse(elem(r.params, 2).s).v.f[n].k = K_domain

\* C17: for every sign request with a method of the closed set (with a
\* params array and, for typed data, well-formed typed data) the
\* normalizer returns one fragment, and its calls list is not empty.
C17_ClosedSetOneFragment ==
    \A i \in 1..Len(converted) :
       (/\ signRequests[i].method \in signMethods
        /\ signRequests[i].hasParams
        /\ signRequests[i].method \in TypedDataMethods
              => WellFormedTypedData(signRequests[i]))
          => /\ converted[i].ok
             /\ converted[i].value.calls # <<>>

\* C18: a sign request with a method outside the closed set makes the
\* normalizer fail with the unsupported-method error; nothing is sent for
\* its tool call, and the tool call is not passed over without an error
\* report.
C18_UnsupportedMethodFails ==
    \A i \in 1..Len(signRequests) :
       signRequests[i].method \notin signMethods
          => /\ converted # <<>>
                  => ~converted[i].ok /\ converted[i].error = UNSUPPORTED
             /\ handled # <<>>
                  => /\ \A n \in 1..Len(handled[1].sent) :
                           handled[1].sent[n].toolCall # i
                     /\ i \in handled[1].reported

\* C19: a typed-data request whose second parameter is not the text of a
\* JSON object with a domain makes the normalizer fail with the
\* malformed-typed-data error; no fragment is returned and nothing is sent
\* for it.
C19_MalformedTypedDataFails ==
    \A i \in 1..Len(signRequests) :
       (/\ signRequests[i].method \in TypedDataMethods
        /\ signRequests[i].hasParams
        /\ ~WellFormedTypedData(signRequests[i]))
          => /\ converted # <<>>
                  => ~converted[i].ok /\ converted[i].error = PARSE_FAILED
             /\ handled # <<>>
                  => \A n \in 1..Len(handled[1].sent) :
                        handled[1].sent[n].toolCall # i

\* C20: no call descriptor made for a signing-only method has a to field,
\* in a fragment of the normalizer or in a message handleStream sends.
C20_SigningOnlyNoTarget ==
    /\ \A i \in 1..Len(converted) :
          (signRequests[i].method \in SigningOnlyMethods /\ converted[i].ok)
             => \A n \in 1..Len(converted[i].value.calls) :
                   ~converted[i].value.calls[n].hasTo
    /\ handled # <<>>
          => \A m \in 1..Len(handled[1].sent) :
                signRequests[handled[1].sent[m].toolCall].method
                      \in SigningOnlyMethods
                   => \A n \in 1..Len(handled[1].sent[m].content.calls) :
                         ~handled[1].sent[m].content.calls[n].hasTo

\* C21: the batch made for an eth_sendTransaction request has as its from
\* the from of the first element of params, and the default sender given by
\* the caller only when that element has no from.
C21_SenderFromFirstParam ==
    \A i \in 1..Len(converted) :
       (/\ signRequests[i].method = "eth_sendTransaction"
        /\ signRequests[i].params # <<>>
        /\ converted[i].ok)
          => converted[i].value.from =
                IF signRequests[i].params[1].from # <<>>
                THEN signRequests[i].params[1].from
                ELSE addressFromInboxId

\* C22: the fragment made for an eth_sendTransaction request with params p
\* has exactly Len(p) calls; call n has the to, data and value of p[n], its
\* metadata has the method as transactionType and the position of p[n] in
\* the array (counted from zero, as a decimal string) as callIndex.
C22_OneCallPerParam ==
    \A i \in 1..Len(converted) :
       (signRequests[i].method = "eth_sendTransaction"
           /\ signRequests[i].hasParams)
          => /\ converted[i].ok
             /\ Len(converted[i].value.calls) = Len(signRequests[i].params)
             /\ \A n \in 1..Len(signRequests[i].params) :
                   LET call == converted[i].value.calls[n]
                       p == signRequests[i].params[n]
                   IN  /\ call.to = p.to
                       /\ call.data = p.data
                       /\ call.value = p.value
                       /\ call.metadata.transactionType = "eth_sendTransaction"
                       /\ parseInt(call.metadata.callIndex) = n - 1

\* a request with two transactions that differ in to, data and value has
\* been converted
C22_Witness ==
    \E i \in 1..Len(converted) :
       /\ signRequests[i].method = "eth_sendTransaction"
       /\ Len(signRequests[i].params) = 2
       /\ signRequests[i].params[1].to # signRequests[i].params[2].to
       /\ signRequests[i].params[1].data # signRequests[i].params[2].data
       /\ signRequests[i].params[1].value # signRequests[i].params[2].value
       /\ converted[i].ok
       /\ Len(converted[i].value.calls) = 2

\* C23: personal_sign reads its params as (message, address) and eth_sign
\* as (address, message); the fragment has exactly one call, whose data is
\* the message and whose metadata names the method and the signer, and the
\* from of the batch is the address extractSignerAddress returns for the
\* same request.
C23_SignParamsOrder ==
    \A i \in 1..Len(converted) :
       LET r == signRequests[i]
           message == IF r.method = "personal_sign" THEN elem(r.params, 1).s
                      ELSE elem(r.params, 2).s
           address == IF r.method = "personal_sign" THEN elem(r.params, 2).s
                      ELSE elem(r.params, 1).s
       IN  (r.method \in {"personal_sign", "eth_sign"} /\ r.hasParams)
              => /\ converted[i].ok
                 /\ Len(converted[i].value.calls) = 1
                 /\ converted[i].value.calls[1].data = message
                 /\ converted[i].value.calls[1].metadata.transactionType
                       = r.method
                 /\ converted[i].value.calls[1].metadata.signer = address
                 /\ converted[i].value.from = address
                 /\ extractSignerAddress(r) = Returned(converted[i].value.from)

\* a personal_sign request with a message and an address that differ has
\* been converted
C23_Witness ==
    \E i \in 1..Len(converted) :
       /\ signRequests[i].method = "personal_sign"
       /\ signRequests[i].params
             = <<ParamString(MESSAGE_HEX), ParamString(otherAddress)>>
       /\ converted[i].ok
       /\ converted[i].value.from = otherAddress

\* C24: the chainId of a fragment is "0x" followed by the lower-case
\* hexadecimal digits of the chain identifier of its tool call, without
\* leading zeros, so that reading it as a hexadecimal number gives the chain
\* identifier back; this for every chain identifier from zero on.
C24_ChainIdHexRoundTrip ==
    \A f \in 1..Len(evmTxCalls) :
       LET toolCall == txToolCalls[evmTxCalls[f].calls]
           h == evmTxCalls[f].chainId
           digit(c) == CHOOSE k \in 0..15 : HEX_DIGITS[k + 1] = c
           number[n \in 2..Len(h)] ==
               IF n = 2 THEN 0 ELSE 16 * number[n - 1] + digit(h[n])
       IN  toolCall.chainId # <<>>
              => /\ startsWith0x(h)
                 /\ Len(h) >= 3
                 /\ \A n \in 3..Len(h) :
                       h[n] \in {HEX_DIGITS[k] : k \in 1..16}
                 /\ Len(h) > 3 => h[3] # "0"
                 /\ number[Len(h)] = parseInt(toolCall.chainId)

\* C25: when making the fragment of one tool call has failed, every other
\* generate-evm-tx tool call of the response that is valid and has calls
\* still has them sent in a batch, wherever the failing one stands.
C25_ToolCallErrorsIsolated ==
    extraction = "threw"
       => \A i \in 1..Len(txToolCalls) :
             (/\ txToolCalls[i].toolName = "generate-evm-tx"
              /\ ~extractThrows(txToolCalls[i])
              /\ txToolCalls[i].hasParams
              /\ txToolCalls[i].params # <<>>)
                => \E k \in 1..Len(groupedRuns) :
                      \E b \in 1..Len(groupedRuns[k].sent) :
                         \E n \in 1..Len(groupedRuns[k].sent[b].calls) :
                            groupedRuns[k].sent[b].calls[n].to
                               = txToolCalls[i].params[1].to

\* C26: when sendToAgent fails for an event, the sender of the event gets a
\* text reply (the apology), the loop goes on to the next event, and the
\* failure does not reach the stream supervisor.
C26_AgentFailureApology ==
    [][\A r \in Running :
          AgentCallFailed(r)
             => /\ InOuts(last'.outs, "reply")
                /\ loops' = Replace(r, AtNext(r))
                /\ UNCHANGED supervisorVars]_vars

\* C27: a failure to send the reaction or a transaction batch of an event
\* does not end the handling of the event: the steps up to the text reply
\* still follow, unless no text reply is due, and the loop stays with its
\* stream.
C27_SendFailureContinues ==
    [][\A r \in Running :
          /\ (r.pc = "react" /\ ~isTransactionReference(r.msg) /\ EventThrow(r))
                => /\ last' = last
                   /\ \E r2 \in BagToSet(loops') :
                         r2.msg = r.msg /\ r2.pc \in InPipeline
          /\ ToolSend(r, FALSE)
                => \/ \E r2 \in BagToSet(loops') :
                         r2.msg = r.msg /\ r2.pc \in {"tools", "reply"}
                   \/ /\ last' = Outcome(r.msg, r.outs, "done")
                      /\ ~sendsReply(r.msg, r.completion)]_vars

\* C28: when a response holds a swap tool call with a transaction and a
\* valid generate-evm-tx tool call with params, the batches sent hold the
\* calls of both: every call of either kind is in a batch sent.
C28_SwapAndDirectBothSent ==
    LET withCalls(name) ==
            {i \in 1..Len(txToolCalls) :
                /\ txToolCalls[i].toolName = name
                /\ txToolCalls[i].hasParams
                /\ txToolCalls[i].params # <<>>
                /\ ~extractThrows(txToolCalls[i])}
    IN  (withCalls("swap") # {} /\ withCalls("generate-evm-tx") # {})
           => \A k \in 1..Len(groupedRuns) :
                 \A i \in withCalls("swap") \cup withCalls("generate-evm-tx") :
                    \A p \in 1..Len(txToolCalls[i].params) :
                       \E b \in 1..Len(groupedRuns[k].sent) :
                          \E n \in 1..Len(groupedRuns[k].sent[b].calls) :
                             groupedRuns[k].sent[b].calls[n].to
                                = txToolCalls[i].params[p].to

\* C29: sendMessage hands the content itself to conversation.send, with the
\* content type it was given, whenever the conversation is not a group or
\* the content type is a reaction.
C29_DirectOrReactionUnwrapped ==
    \A n \in 1..Len(wire) :
       (/\ wire[n].by \in {"sendMessage", "sendMessageOptionalReference"}
        /\ ~sendArgs.isGroup \/ sendArgs.contentType = "reaction")
          => /\ ~wire[n].sent.content.wrapped
             /\ wire[n].sent.content.content = sendArgs.content
             /\ wire[n].sent.contentType = sendArgs.contentType

\* both versions of sendMessage have sent a reaction into a group
C29_Witness ==
    /\ sendArgs.isGroup
    /\ sendArgs.contentType = "reaction"
    /\ sendArgs.reference # ""
    /\ \A by \in {"sendMessage", "sendMessageOptionalReference"} :
          \E n \in 1..Len(wire) :
             wire[n].by = by /\ ~wire[n].sent.content.wrapped

\* the texts of AgentTexts that hold an indicator
IndicatorTexts ==
    {<<"P", "l", "e", "a", "s", "e", " ", "S", "i", "g", "n", " ", "i", "t">>,
     <<"u", "s", "e", " ", "W", "A", "L", "L", "E", "T", "_", "S", "E", "N",
       "D", "C", "A", "L", "L", "S">>}

\* C30: a text sent into a group in answer to a message, by sendMessage or
\* by the loop itself, goes out under the reply content type, as a reply
\* whose reference is the id of that message and whose content is the text
\* (for the loop: the text it decided to send).
C30_GroupTextThreaded ==
    \A n \in 1..Len(wire) :
       (/\ sendArgs.isGroup
        /\ sendArgs.contentType = "text"
        /\ sendArgs.reference # ""
        /\ wire[n].sent.contentType # "none")
          => /\ wire[n].sent.contentType = "reply"
             /\ wire[n].sent.content.wrapped
             /\ wire[n].sent.content.reference = sendArgs.reference
             /\ wire[n].sent.content.contentType = "text"
             /\ wire[n].sent.content.content =
                   IF wire[n].by = "inline" /\ sendArgs.content \in IndicatorTexts
                   THEN errorMessage ELSE sendArgs.content

\* a text for a group was sent by all three senders
C30_Witness ==
    /\ sendArgs.isGroup
    /\ sendArgs.contentType = "text"
    /\ sendArgs.reference = "message2"
    /\ Len(wire) = 3
    /\ \A n \in 1..3 : wire[n].sent.contentType = "reply"

\* C31: a transaction batch sent into a group is handed to
\* conversation.send as it is, not inside an object with a reference, and
\* under the walletSendCalls content type.
C31_GroupBatchUnwrapped ==
    \A n \in 1..Len(wire) :
       (/\ wire[n].by \in {"sendMessage", "sendMessageOptionalReference"}
        /\ sendArgs.isGroup
        /\ sendArgs.contentType = "walletSendCalls")
          => /\ wire[n].sent.contentType = "walletSendCalls"
             /\ ~wire[n].sent.content.wrapped
             /\ wire[n].sent.content.content = sendArgs.content

\* C33: the process exits only in a step in which a subscription fails (at
\* connecting, through the SDK's onFail, or by a rejecting iterator) while
\* retries is 0; a step in which the handling of an event, the agent call
\* or a send fails never makes the process exit.
C33_ExitOnlyAfterRetries ==
    [][/\ (exited' /\ ~exited)
             => /\ retries = 0
                /\ \E r \in Running :
                      ConnectFail(r) \/ SdkOnFail(r) \/ IterThrow(r)
       /\ \A r \in Running :
             (EventThrow(r) \/ AgentCallFailed(r) \/ ToolSend(r, FALSE))
                => exited' = exited /\ retries' = retries]_vars

\* the handling of an event ended with an error, and later the process
\* exited
C33_Witness ==
    /\ exited
    /\ last.how = "error"
    /\ retries = 0

\* C34: a failure of a subscription is counted once. Every invocation of
\* handleStream has one subscription, so onFail was called at most once for
\* every invocation whose subscription is gone, and the invocations whose
\* subscription has not failed together with the pending reconnects are
\* never more than one.
C34_FailureCountedOnce ==
    LET alive == {r \in Running : r.stream # "failed"}
        active == BagCardinality([r \in alive |-> loops[r]])
    IN  /\ onFailCalls <= started - active
        /\ active + timers <= 1

\* C35: retries stays between 0 and MAX_RETRIES and no step raises it, not
\* even a reconnect that succeeds; over the whole run at most MAX_RETRIES
\* reconnects are scheduled.
C35_RetriesNeverReplenished ==
    /\ [](/\ MAX_RETRIES = 5
          /\ retries \in 0..MAX_RETRIES
          /\ scheduled = MAX_RETRIES - retries)
    /\ [][retries' <= retries]_vars

\* the fifth reconnect has opened its subscription and no retry is left
C35_Witness ==
    /\ retries = 0
    /\ scheduled = 5
    /\ ~exited
    /\ \E r \in Running : r.stream = "open"

\* C36: after a response with a status that is not retryable (below 500 and
\* not 429) the retrying sendToAgent makes no further request.
C36_NonRetryableNotRetried ==
    agentCall # <<>>
       => \A k \in 1..Len(agentCall.requests) :
             (/\ agentCall.requests[k] \notin {0, 200}
              /\ agentCall.requests[k] < 500
              /\ agentCall.requests[k] # 429)
                => k = Len(agentCall.requests)

\* C37: the retrying sendToAgent comes to its return and never throws; it
\* makes at most 3 requests; it returns the parsed body of the first
\* request that succeeded, and after three failed requests the response
\* with isError, finishReason "error", no tool calls and the apology.
C37_AlwaysReturns ==
    /\ <>(agentCall.pc = "returned")
    /\ [](/\ agentCall.pc \in {"fetch", "sleep", "returned"}
          /\ Len(agentCall.requests) <= 3
          /\ agentCall.delay <= 10000
          /\ agentCall.pc = "returned"
                => LET requests == agentCall.requests
                       result == agentCall.result[1]
                   IN  /\ \A k \in 1..(Len(requests) - 1) : requests[k] # 200
                       /\ IF requests[Len(requests)] = 200
                          THEN result = AgentResponse(Len(requests), "parsed",
                                                      "stop", FALSE)
                          ELSE /\ Len(requests) = 3
                               /\ result.isError
                               /\ result.finishReason = "error"
                               /\ result.toolCalls = <<>>
                               /\ result.content = "apology")

\* three requests failed and the made-up response was returned
C37_Witness ==
    /\ agentCall # <<>>
    /\ agentCall.pc = "returned"
    /\ agentCall.requests = <<500, 0, 429>>
    /\ agentCall.result[1].isError

\* outputs that reach the conversation
conversationOutputs == {"welcome", "reaction", "batch", "reply"}

\* the reaction, then the agent request, then batches, then the text reply
RECURSIVE inFixedOrder(_, _)
inFixedOrder(outs, rank) ==
    LET rankOf == [kind \in {"reaction", "agentCall", "batch", "reply"} |->
                     CASE kind = "reaction" -> 1
                       [] kind = "agentCall" -> 2
                       [] kind = "batch" -> 3
                       [] kind = "reply" -> 4]
    IN  \/ outs = <<>>
        \/ /\ Head(outs) # "welcome"
           /\ rankOf[Head(outs)] >= rank
           /\ Head(outs) # "batch" => rankOf[Head(outs)] > rank
           /\ inFixedOrder(Tail(outs), rankOf[Head(outs)])

\* C38: the outputs of one event are sent in the order reaction, agent
\* request, transaction batches, text reply; and no output of a later event
\* is sent before the last output of an earlier event: when a loop sends an
\* output for its message, no message that arrived later in the same
\* conversation has an output yet.
C38_OutputsInEventOrder ==
    /\ [](\A r \in Running :
             \/ r.outs = <<"welcome">>
             \/ inFixedOrder(r.outs, 0))
    /\ [][\A r \in Running :
             (React(r) \/ ToolSend(r, TRUE) \/ Reply(r))
                => /\ \A r2 \in Running :
                         (r2.msg.conv = r.msg.conv /\ r2.msg.id > r.msg.id)
                            => \A n \in 1..Len(r2.outs) :
                                  r2.outs[n] \notin conversationOutputs
                   /\ (last.msg.conv = r.msg.conv /\ last.msg.id > r.msg.id)
                         => \A n \in 1..Len(last.outs) :
                               last.outs[n] \notin conversationOutputs]_vars

C40_GroupingKeepsInput ==
    \A k \in 1..Len(groupedRuns) :
       LET after == IF k < Len(groupedRuns)
                    THEN groupedRuns[k + 1].given ELSE arrays
       IN  \A f \in 1..Len(evmTxCalls) :
              after[evmTxCalls[f].calls] = groupedRuns[k].given[evmTxCalls[f].calls]

====
